---- MODULE Spec2Model ----
(***************************************************************************)
(* Model of pr-review/BB_Reviewagent.py: ClaudePRReviewer.run_review and   *)
(* the methods it calls, one action per external call or step.  The        *)
(* Bitbucket host and the Anthropic analyzer are the environment: every    *)
(* request may succeed or fail, and the analyzer may answer any text.      *)
(***************************************************************************)
EXTENDS Integers, Sequences, FiniteSets, TLC

VARIABLES
    pc,                     \* position of the process in __main__ / run_review
    include_low_severity,   \* self.include_low_severity
    comments,               \* the host's comment list of the pull request
    calls,                  \* external requests made by the current run, in order
    posted,                 \* comments the host accepted from the current run
    changes,                \* result of get_pr_changes
    raw_text,               \* message.content[0].text as the analyzer sent it
    response_text,          \* analyzer text after fence stripping
    review,                 \* review_data returned by analyze_with_claude
    idx,                    \* issues of issues_to_include already handled
    exc,                    \* exception in flight or caught by run_review
    ret,                    \* return value of run_review
    exit_code,              \* exit status of the process
    runs,                   \* processes started on this pull request so far
    prev                    \* outcome of the preceding process (twin runs)

vars == <<pc, include_low_severity, comments, calls, posted, changes,
          raw_text, response_text, review, idx, exc, ret, exit_code, runs, prev>>

----------------------------------------------------------------------------
(* Bounds of the model *)

MaxPre == 2        \* comments on the pull request before the first run
MaxIssues == 2     \* issues per review drawn from the full palette
MaxTally == 4      \* issues per review drawn from the plain severities
MaxRuns == 2       \* pipeline runs on one pull request
MaxShape == 1      \* issues per review whose top-level shape varies
MaxSmall == 1      \* issues per review in repeated and twin runs

----------------------------------------------------------------------------
(* Values *)

Absent == "<absent>"
NoExc == "no exception"
NoRet == "not returned"
NoInline == [path |-> Absent, has_to |-> FALSE, to |-> 0]

RECURSIVE SeqsUpTo(_, _)
SeqsUpTo(S, n) ==
    IF n = 0 THEN {<<>>}
    ELSE LET shorter == SeqsUpTo(S, n - 1)
         IN  shorter \cup {Append(s, x) : s \in {t \in shorter : Len(t) = n - 1}, x \in S}

(* A JSON issue object as the analyzer may write it.  file, category and   *)
(* good_practice may be missing; line may be missing (has_line = FALSE).   *)
Issue(sev, file, has_line, line, cat, gp, d) ==
    [severity |-> sev, file |-> file, has_line |-> has_line, line |-> line,
     category |-> cat, good_practice |-> gp, description |-> d]

PlainIssues ==
    { Issue("high", "a.py", TRUE, 10, "security", "false", "d1"),
      Issue("medium", "a.py", TRUE, 10, "quality", "false", "d2"),
      Issue("low", "a.py", TRUE, 10, "quality", "true", "d3") }

Palette ==
    PlainIssues \cup
    { Issue("medium", Absent, FALSE, 0, "testing", Absent, "d4"),
      Issue("low", "a.py", TRUE, 0, Absent, "false", "d5"),
      Issue("high", "", TRUE, 10, Absent, "false", "d6"),
      Issue("medium", "a.py", FALSE, 0, "performance", "true", "d7"),
      Issue("high", Absent, TRUE, 10, "security", "false", "d8"),
      Issue("medium", "a.py", TRUE, 0, "quality", "false", "d9"),
      Issue("high", "", TRUE, 10, "security", "false", "d10") }

----------------------------------------------------------------------------
(* The analyzer's JSON payload *)

IssuesValue(k, items) == [kind |-> k, items |-> items]

(* A JSON object; each of the four keys may be missing, and the value of   *)
(* "issues" may be a list, null, or an empty object.                       *)
Obj(hs, hr, hn, iss) ==
    [kind |-> "object", has_summary |-> hs, has_recommendations |-> hr,
     has_positive_notes |-> hn, issues |-> iss]

(* A JSON value that is not an object: an array or a scalar. *)
NonObject(k) ==
    [kind |-> k, has_summary |-> FALSE, has_recommendations |-> FALSE,
     has_positive_notes |-> FALSE, issues |-> IssuesValue("absent", <<>>)]

Complete(l) == Obj(TRUE, TRUE, TRUE, IssuesValue("list", l))

IssueLists == SeqsUpTo(Palette, MaxIssues) \cup SeqsUpTo(PlainIssues, MaxTally)

Shapes ==
    { Obj(hs, hr, hn, iss) :
        hs \in BOOLEAN, hr \in BOOLEAN, hn \in BOOLEAN,
        iss \in { IssuesValue("list", l) : l \in SeqsUpTo(Palette, MaxShape) }
                \cup { IssuesValue("absent", <<>>), IssuesValue("null", <<>>),
                       IssuesValue("object", <<>>) } }

Payloads ==
    { Complete(l) : l \in IssueLists } \cup Shapes
    \cup { NonObject("array"), NonObject("scalar") }

SmallPayloads == { Complete(l) : l \in SeqsUpTo(Palette, MaxSmall) }

----------------------------------------------------------------------------
(* The analyzer's text: a sequence of tokens *)

Tok(t) == [tok |-> t, val |-> NonObject("none")]
Fence == Tok("fence")          \* three backticks
TagJson == Tok("json")       \* the four letters json
Word == Tok("word")          \* any other text that is not JSON
Ws == Tok("ws")              \* whitespace
Value(p) == [tok |-> "value", val |-> p]    \* the text of the JSON value p

DropFirst(t, n) == SubSeq(t, n + 1, Len(t))
DropLast(t, n) == SubSeq(t, 1, Len(t) - n)
StartsWith(t, p) == Len(t) >= Len(p) /\ SubSeq(t, 1, Len(p)) = p
EndsWith(t, p) == Len(t) >= Len(p) /\ SubSeq(t, Len(t) - Len(p) + 1, Len(t)) = p

RECURSIVE LStrip(_)
LStrip(t) == IF t # <<>> /\ Head(t) = Ws THEN LStrip(Tail(t)) ELSE t

RECURSIVE RStrip(_)
RStrip(t) == IF t # <<>> /\ t[Len(t)] = Ws THEN RStrip(DropLast(t, 1)) ELSE t

Strip(t) == RStrip(LStrip(t))

(* lines 220-230 *)
StripFences(text) ==
    LET t0 == Strip(text)
        t1 == IF StartsWith(t0, <<Fence, TagJson>>) THEN DropFirst(t0, 2) ELSE t0
        t2 == IF StartsWith(t1, <<Fence>>) THEN DropFirst(t1, 1) ELSE t1
        t3 == IF EndsWith(t2, <<Fence>>) THEN DropLast(t2, 1) ELSE t2
    IN  Strip(t3)

(* json.loads: one JSON value, whitespace around it allowed *)
IsJson(t) == LET s == Strip(t) IN Len(s) = 1 /\ s[1].tok = "value"
json_loads(t) == Strip(t)[1].val

RawTexts(P) ==
    { <<Value(p)>> : p \in P }
    \cup { <<Fence, TagJson, Ws, Value(p), Ws, Fence>> : p \in SmallPayloads }
    \cup { <<Ws, Fence, Ws, Value(p), Fence, Ws>> : p \in SmallPayloads }
    \cup { <<Fence, Word, Ws, Value(p), Ws, Fence>> : p \in SmallPayloads }
    \cup { <<Word>>, <<>>, <<Fence, TagJson, Fence>>,
           <<Word, Ws, Value(Complete(<<>>))>> }

----------------------------------------------------------------------------
(* Comments on the host *)

Comment(type, marker, sev, cat, d, gp, h, m, l, note, inline) ==
    [type |-> type, marker |-> marker, severity |-> sev, category |-> cat,
     description |-> d, good_practice |-> gp, high |-> h, medium |-> m,
     low |-> l, hidden_note |-> note, inline |-> inline]

(* A comment that was on the pull request before the first run; marker     *)
(* tells whether its text contains "Claude Code Review Summary".           *)
UserComment(marker) ==
    Comment("user", marker, Absent, Absent, Absent, FALSE, 0, 0, 0, FALSE, NoInline)

InitialComments == SeqsUpTo({UserComment(FALSE), UserComment(TRUE)}, MaxPre)

(* line 131 *)
HasMarker(c) == c.marker

(* variant: only the first listed comment is examined *)
MarkerFound_FirstOnly(cs) == Len(cs) > 0 /\ HasMarker(cs[1])

(* lines 130-134 *)
MarkerFound(cs) == \E i \in 1..Len(cs) : HasMarker(cs[i])

(* lines 122-137: any failure of the listing is swallowed and answers False *)
check_existing_reviews(ok, cs) == ok /\ MarkerFound(cs)

Count(issues, sev) == Cardinality({i \in 1..Len(issues) : issues[i].severity = sev})

(* variant: only high-severity issues pass the filter when the option is off *)
Included_HighOnly(issue, inc) == inc \/ issue.severity = "high"

(* lines 250-253 *)
Included(issue, inc) == inc \/ issue.severity # "low"
issues_to_include(rv, inc) ==
    LET Keep(issue) == Included(issue, inc) IN SelectSeq(rv.issues.items, Keep)

(* variant: the heading of the summary no longer holds the marker text *)
SummaryComment_NoMarker(rv, inc) ==
    LET inc_issues == issues_to_include(rv, inc)
        low_count == Count(inc_issues, "low")
    IN  Comment("summary", FALSE, Absent, Absent, Absent, FALSE,
                Count(inc_issues, "high"), Count(inc_issues, "medium"), low_count,
                ~inc /\ low_count > 0, NoInline)

(* variant: the low count of the summary is taken from all issues *)
SummaryComment_LowFromAll(rv, inc) ==
    LET inc_issues == issues_to_include(rv, inc)
        low_count == Count(rv.issues.items, "low")
    IN  Comment("summary", TRUE, Absent, Absent, Absent, FALSE,
                Count(inc_issues, "high"), Count(inc_issues, "medium"), low_count,
                ~inc /\ low_count > 0, NoInline)

(* lines 256-276 *)
SummaryComment(rv, inc) ==
    LET inc_issues == issues_to_include(rv, inc)
        low_count == Count(inc_issues, "low")
    IN  Comment("summary", TRUE, Absent, Absent, Absent, FALSE,
                Count(inc_issues, "high"), Count(inc_issues, "medium"), low_count,
                ~inc /\ low_count > 0, NoInline)

(* Python truth value of issue.get('file') and issue.get('line') *)
FileTruthy(issue) == issue.file # Absent /\ issue.file # ""
LineTruthy(issue) == issue.has_line /\ issue.line # 0

(* lines 310-315 *)
Inline(issue) ==
    IF FileTruthy(issue) /\ LineTruthy(issue)
    THEN [path |-> issue.file, has_to |-> TRUE, to |-> issue.line]
    ELSE NoInline

(* lines 292-315 *)
IssueComment(issue) ==
    Comment("issue", FALSE, issue.severity, issue.category, issue.description,
            issue.good_practice = "true", 0, 0, 0, FALSE, Inline(issue))

(* lines 250-276: the exception raised before the summary is posted *)
SummaryError(rv) ==
    IF rv.kind # "object" THEN "TypeError"
    ELSE IF rv.issues.kind = "absent" THEN "KeyError"
    ELSE IF rv.issues.kind = "null" THEN "TypeError"
    ELSE IF ~rv.has_summary THEN "KeyError"
    ELSE IF ~rv.has_recommendations THEN "KeyError"
    ELSE NoExc

(* lines 300-306: the exception raised while an issue comment is built *)
IssueError(issue) == IF issue.category = Absent THEN "KeyError" ELSE NoExc

(* variant: three medium issues already fail *)
should_fail_AtLeast3(high, medium) == high > 0 \/ medium >= 3

(* line 347 *)
should_fail(high, medium) == high > 0 \/ medium > 3

(* variant: except requests.exceptions.RequestException *)
Catches_RequestOnly(e) == e = "RequestException"

(* line 360: except Exception *)
Catches(e) == TRUE

(* variant: the result of test_auth is not looked at *)
AuthPassed_Ignored(ok) == TRUE

(* line 141 *)
AuthPassed(ok) == ok

Bool(b) == IF b THEN "True" ELSE "False"
Call(op, ok) == [op |-> op, ok |-> ok]

----------------------------------------------------------------------------
(* The process *)

NoReview == NonObject("none")
NoText == <<Tok("none")>>
NoChanges == [fetched |-> FALSE, deleted_file |-> FALSE]

Finished == {"returned", "exited"}

StartOfRun ==
    /\ pc = "run_review"
    /\ calls = <<>>
    /\ posted = <<>>
    /\ changes = NoChanges
    /\ raw_text = NoText
    /\ response_text = NoText
    /\ review = NoReview
    /\ idx = 0
    /\ exc = NoExc
    /\ ret = NoRet
    /\ exit_code = <<>>

Init ==
    /\ StartOfRun
    /\ include_low_severity \in BOOLEAN
    /\ comments \in InitialComments
    /\ runs = 1
    /\ prev = <<>>

Raise(e) == pc' = "except" /\ exc' = e

(* lines 329-331 with 122-137 *)
CheckExistingReviews ==
    /\ pc = "run_review"
    /\ \E ok \in BOOLEAN :
        /\ calls' = Append(calls, Call("list_comments", ok))
        /\ IF check_existing_reviews(ok, comments)
           THEN pc' = "returned" /\ ret' = "True"
           ELSE pc' = "test_auth" /\ ret' = ret
    /\ UNCHANGED <<include_low_severity, comments, posted, changes, raw_text, response_text,
                   review, idx, exc, exit_code, runs, prev>>

(* lines 141-142 with 103-120 *)
TestAuth ==
    /\ pc = "test_auth"
    /\ \E ok \in BOOLEAN :
        /\ calls' = Append(calls, Call("test_auth", ok))
        /\ IF AuthPassed(ok)
           THEN pc' = "fetch_diff" /\ exc' = exc
           ELSE Raise("Exception")
    /\ UNCHANGED <<include_low_severity, comments, posted, changes, raw_text, response_text,
                   review, idx, ret, exit_code, runs, prev>>

(* lines 145-149 *)
FetchDiff ==
    /\ pc = "fetch_diff"
    /\ \E ok \in BOOLEAN :
        /\ calls' = Append(calls, Call("diff", ok))
        /\ IF ok THEN pc' = "fetch_files" /\ exc' = exc
                 ELSE Raise("RequestException")
    /\ UNCHANGED <<include_low_severity, comments, posted, changes, raw_text, response_text,
                   review, idx, ret, exit_code, runs, prev>>

(* lines 151-155: a removed file has "new": null in the diffstat *)
FetchFiles ==
    /\ pc = "fetch_files"
    /\ \E ok \in BOOLEAN :
        /\ calls' = Append(calls, Call("diffstat", ok))
        /\ IF ok
           THEN /\ pc' = "fetch_pr"
                /\ exc' = exc
                /\ \E deleted \in BOOLEAN :
                     changes' = [fetched |-> FALSE, deleted_file |-> deleted]
           ELSE /\ Raise("RequestException")
                /\ changes' = changes
    /\ UNCHANGED <<include_low_severity, comments, posted, raw_text, response_text,
                   review, idx, ret, exit_code, runs, prev>>

(* variant: a failed fetch of the pull request details is not raised *)
FetchPrInfo_IgnoreFailure ==
    /\ pc = "fetch_pr"
    /\ \E ok \in BOOLEAN :
        /\ calls' = Append(calls, Call("pr_info", ok))
        /\ pc' = "analyze"
        /\ exc' = exc
        /\ changes' = [changes EXCEPT !.fetched = TRUE]
    /\ UNCHANGED <<include_low_severity, comments, posted, raw_text, response_text,
                   review, idx, ret, exit_code, runs, prev>>

(* lines 157-167 *)
FetchPrInfo ==
    /\ pc = "fetch_pr"
    /\ \E ok \in BOOLEAN :
        /\ calls' = Append(calls, Call("pr_info", ok))
        /\ IF ok
           THEN /\ pc' = "analyze"
                /\ exc' = exc
                /\ changes' = [changes EXCEPT !.fetched = TRUE]
           ELSE /\ Raise("RequestException")
                /\ changes' = changes
    /\ UNCHANGED <<include_low_severity, comments, posted, raw_text, response_text,
                   review, idx, ret, exit_code, runs, prev>>

(* variant: text that is not JSON is replaced by an empty review *)
AnalyzeWithClaude_Fallback(texts) ==
    /\ pc = "analyze"
    /\ IF changes.deleted_file
       THEN /\ Raise("TypeError")
            /\ UNCHANGED <<calls, raw_text, response_text, review>>
       ELSE \E ok \in BOOLEAN :
            /\ calls' = Append(calls, Call("analyzer", ok))
            /\ IF ~ok
               THEN /\ Raise("APIError")
                    /\ UNCHANGED <<raw_text, response_text, review>>
               ELSE \E text \in texts :
                    /\ raw_text' = text
                    /\ response_text' = StripFences(text)
                    /\ review' = IF IsJson(response_text')
                                 THEN json_loads(response_text')
                                 ELSE Complete(<<>>)
                    /\ pc' = "post_summary"
                    /\ exc' = exc
    /\ UNCHANGED <<include_low_severity, comments, posted, changes, idx, ret,
                   exit_code, runs, prev>>

(* lines 173-244; texts is the set of answers the analyzer may give *)
AnalyzeWithClaude(texts) ==
    /\ pc = "analyze"
    /\ IF changes.deleted_file
       THEN \* line 185: f['new']['path'] on a removed file, before the request
            /\ Raise("TypeError")
            /\ UNCHANGED <<calls, raw_text, response_text, review>>
       ELSE \E ok \in BOOLEAN :
            /\ calls' = Append(calls, Call("analyzer", ok))
            /\ IF ~ok
               THEN /\ Raise("APIError")
                    /\ UNCHANGED <<raw_text, response_text, review>>
               ELSE \E text \in texts :
                    /\ raw_text' = text
                    /\ response_text' = StripFences(text)
                    /\ IF IsJson(response_text')
                       THEN /\ review' = json_loads(response_text')
                            /\ pc' = "post_summary"
                            /\ exc' = exc
                       ELSE /\ Raise("JSONDecodeError")
                            /\ review' = review
    /\ UNCHANGED <<include_low_severity, comments, posted, changes, idx, ret,
                   exit_code, runs, prev>>

(* lines 248-287 *)
PostSummary ==
    /\ pc = "post_summary"
    /\ IF SummaryError(review) # NoExc
       THEN /\ Raise(SummaryError(review))
            /\ UNCHANGED <<calls, comments, posted>>
       ELSE \E ok \in BOOLEAN :
            /\ calls' = Append(calls, Call("post", ok))
            /\ IF ok
               THEN /\ comments' = Append(comments, SummaryComment(review, include_low_severity))
                    /\ posted' = Append(posted, SummaryComment(review, include_low_severity))
                    /\ pc' = "post_issues"
                    /\ exc' = exc
               ELSE /\ Raise("RequestException")
                    /\ UNCHANGED <<comments, posted>>
    /\ UNCHANGED <<include_low_severity, changes, raw_text, response_text, review, idx, ret,
                   exit_code, runs, prev>>

(* variant: a failed issue post is logged and the loop goes on *)
PostIssue_ContinueOnError ==
    /\ pc = "post_issues"
    /\ idx < Len(issues_to_include(review, include_low_severity))
    /\ LET issue == issues_to_include(review, include_low_severity)[idx + 1]
       IN  IF IssueError(issue) # NoExc
           THEN /\ Raise(IssueError(issue))
                /\ UNCHANGED <<calls, comments, posted, idx>>
           ELSE \E ok \in BOOLEAN :
                /\ calls' = Append(calls, Call("post", ok))
                /\ idx' = idx + 1
                /\ UNCHANGED <<pc, exc>>
                /\ IF ok
                   THEN /\ comments' = Append(comments, IssueComment(issue))
                        /\ posted' = Append(posted, IssueComment(issue))
                   ELSE UNCHANGED <<comments, posted>>
    /\ UNCHANGED <<include_low_severity, changes, raw_text, response_text, review, ret,
                   exit_code, runs, prev>>

(* lines 291-319: one iteration of the loop over issues_to_include *)
PostIssue ==
    /\ pc = "post_issues"
    /\ idx < Len(issues_to_include(review, include_low_severity))
    /\ LET issue == issues_to_include(review, include_low_severity)[idx + 1]
       IN  IF IssueError(issue) # NoExc
           THEN /\ Raise(IssueError(issue))
                /\ UNCHANGED <<calls, comments, posted, idx>>
           ELSE \E ok \in BOOLEAN :
                /\ calls' = Append(calls, Call("post", ok))
                /\ IF ok
                   THEN /\ comments' = Append(comments, IssueComment(issue))
                        /\ posted' = Append(posted, IssueComment(issue))
                        /\ idx' = idx + 1
                        /\ UNCHANGED <<pc, exc>>
                   ELSE /\ Raise("RequestException")
                        /\ UNCHANGED <<comments, posted, idx>>
    /\ UNCHANGED <<include_low_severity, changes, raw_text, response_text, review, ret,
                   exit_code, runs, prev>>

(* lines 342-358 *)
Verdict ==
    /\ pc = "post_issues"
    /\ idx = Len(issues_to_include(review, include_low_severity))
    /\ LET high_severity_count == Count(review.issues.items, "high")
           medium_severity_count == Count(review.issues.items, "medium")
       IN  ret' = Bool(~should_fail(high_severity_count, medium_severity_count))
    /\ pc' = "returned"
    /\ UNCHANGED <<include_low_severity, comments, calls, posted, changes,
                   raw_text, response_text, review, idx, exc, exit_code, runs, prev>>

(* lines 360-362; an exception the handler does not catch ends the process *)
Except ==
    /\ pc = "except"
    /\ IF Catches(exc)
       THEN pc' = "returned" /\ ret' = "False" /\ exit_code' = exit_code
       ELSE pc' = "crashed" /\ ret' = ret /\ exit_code' = <<1>>
    /\ UNCHANGED <<include_low_severity, comments, calls, posted, changes,
                   raw_text, response_text, review, idx, exc, runs, prev>>

(* lines 366-367 *)
Exit ==
    /\ pc = "returned"
    /\ pc' = "exited"
    /\ exit_code' = <<IF ret = "True" THEN 0 ELSE 1>>
    /\ UNCHANGED <<include_low_severity, comments, calls, posted, changes,
                   raw_text, response_text, review, idx, exc, ret, runs, prev>>

Next ==
    \/ CheckExistingReviews
    \/ TestAuth
    \/ FetchDiff
    \/ FetchFiles
    \/ FetchPrInfo
    \/ AnalyzeWithClaude(RawTexts(Payloads))
    \/ PostSummary
    \/ PostIssue
    \/ Verdict
    \/ Except
    \/ Exit

Spec == Init /\ [][Next]_vars

----------------------------------------------------------------------------
(* Repeated pipeline runs on the same pull request *)

ResetRun ==
    /\ pc' = "run_review"
    /\ calls' = <<>>
    /\ posted' = <<>>
    /\ changes' = NoChanges
    /\ raw_text' = NoText
    /\ response_text' = NoText
    /\ review' = NoReview
    /\ idx' = 0
    /\ exc' = NoExc
    /\ ret' = NoRet
    /\ exit_code' = <<>>

(* lines 364-366: the pipeline is triggered again; the host keeps its comments *)
NewRun ==
    /\ pc = "exited"
    /\ runs < MaxRuns
    /\ runs' = runs + 1
    /\ ResetRun
    /\ UNCHANGED <<include_low_severity, comments, prev>>

(* answers of the analyzer in repeated runs: plain reviews, or no JSON *)
RerunTexts ==
    { <<Value(Complete(l))>> : l \in SeqsUpTo(PlainIssues, MaxSmall) } \cup { <<Word>> }

NextRerun ==
    \/ CheckExistingReviews
    \/ TestAuth
    \/ FetchDiff
    \/ FetchFiles
    \/ FetchPrInfo
    \/ AnalyzeWithClaude(RerunTexts)
    \/ PostSummary
    \/ PostIssue
    \/ Verdict
    \/ Except
    \/ Exit
    \/ NewRun

(* the first run finds a pull request on which no comment holds the marker *)
InitRerun ==
    /\ Init
    /\ comments \in SeqsUpTo({UserComment(FALSE)}, MaxPre)

SpecRerun == InitRerun /\ [][NextRerun]_vars

----------------------------------------------------------------------------
(* Twin runs: the same pull request reviewed with the option flipped *)

Outcome ==
    [include_low_severity |-> include_low_severity, calls |-> calls,
     posted |-> posted, response_text |-> response_text, review |-> review,
     exc |-> exc, ret |-> ret]

CommentsBeforeRun == SubSeq(comments, 1, Len(comments) - Len(posted))

(* lines 58-63 and 364-366: a second process on a pull request in the      *)
(* state the first one found, INCLUDE_LOW_SEVERITY being the other value   *)
TwinRun ==
    /\ pc = "exited"
    /\ prev = <<>>
    /\ prev' = <<Outcome>>
    /\ comments' = CommentsBeforeRun
    /\ include_low_severity' = ~include_low_severity
    /\ runs' = runs + 1
    /\ ResetRun

(* the analyzer answers the twin what it answered the first run *)
TwinTexts ==
    IF prev # <<>> /\ prev[1].response_text # NoText
    THEN {prev[1].response_text}
    ELSE RawTexts(SmallPayloads)

NextTwin ==
    \/ CheckExistingReviews
    \/ TestAuth
    \/ FetchDiff
    \/ FetchFiles
    \/ FetchPrInfo
    \/ AnalyzeWithClaude(TwinTexts)
    \/ PostSummary
    \/ PostIssue
    \/ Verdict
    \/ Except
    \/ Exit
    \/ TwinRun

SpecTwin == Init /\ [][NextTwin]_vars

----------------------------------------------------------------------------
(* Properties *)

Ops(op) == {i \in 1..Len(calls) : calls[i].op = op}
FailedCalls(op) == {i \in Ops(op) : ~calls[i].ok}
ReachedVerdict == pc \in Finished /\ exc = NoExc /\ Len(calls) > 1
High == Count(review.issues.items, "high")
Medium == Count(review.issues.items, "medium")
Low == Count(review.issues.items, "low")

(* C1: when the listing of comments succeeds and a listed comment contains *)
(* the summary marker, run_review returns True and the listing is the only *)
(* external call of the run: no authentication check, no fetch, no         *)
(* analyzer call and no post.                                              *)
C1_ShortCircuit ==
    (/\ calls # <<>>
     /\ calls[1].ok
     /\ \E i \in 1..Len(CommentsBeforeRun) : CommentsBeforeRun[i].marker)
    => /\ pc \in Finished
       /\ ret = "True"
       /\ calls = <<Call("list_comments", TRUE)>>
       /\ posted = <<>>

C1_Witness ==
    /\ pc = "exited"
    /\ calls = <<Call("list_comments", TRUE)>>
    /\ comments = <<UserComment(FALSE), UserComment(TRUE)>>
    /\ ret = "True"

(* C2: over repeated runs on one pull request, whatever external calls     *)
(* fail, the host never holds more than one summary comment posted by the  *)
(* reviewer.                                                               *)
C2_AtMostOneSummary ==
    Cardinality({i \in 1..Len(comments) : comments[i].type = "summary"}) <= 1

(* C3: a run that reaches the verdict step returns True exactly when the   *)
(* unfiltered issues hold no high-severity issue and at most three         *)
(* medium-severity issues.                                                 *)
C3_VerdictRule ==
    ReachedVerdict => (ret = "True" <=> (High = 0 /\ Medium <= 3))

C3_Witness == ReachedVerdict /\ High = 0 /\ Medium = 3 /\ ret = "True"
C3_WitnessMedium4 == ReachedVerdict /\ High = 0 /\ Medium = 4 /\ ret = "False"
C3_WitnessHigh1 == ReachedVerdict /\ High = 1 /\ Medium = 0 /\ ret = "False"

AllOk(cs) == \A i \in 1..Len(cs) : cs[i].ok
NonLow(cs) == LET Keep(c) == c.type = "issue" /\ c.severity # "low" IN SelectSeq(cs, Keep)
LowPosted(cs) == Cardinality({i \in 1..Len(cs) : cs[i].type = "issue" /\ cs[i].severity = "low"})

(* C4: two runs on the same pull request state, with the same analyzer     *)
(* answer and the same (all succeeding) host, that differ only in          *)
(* include_low_severity return the same verdict and publish the same       *)
(* non-low issue comments in the same order; the run with the option off   *)
(* publishes no low-severity comment and the run with the option on        *)
(* publishes one per low-severity issue.                                   *)
C4_FilteringIndependence ==
    (/\ prev # <<>>
     /\ pc \in Finished
     /\ response_text # NoText
     /\ response_text = prev[1].response_text
     /\ AllOk(calls)
     /\ AllOk(prev[1].calls))
    => /\ ret = prev[1].ret
       /\ NonLow(posted) = NonLow(prev[1].posted)
       /\ LowPosted(posted) = (IF include_low_severity THEN Low ELSE 0)
       /\ LowPosted(prev[1].posted) = (IF include_low_severity THEN 0 ELSE Low)

(* C5: every exception raised inside run_review is caught there and turned *)
(* into the return value False; none escapes to the caller; the process    *)
(* exits with 1 exactly when run_review returned False and with 0 exactly  *)
(* when it returned True.                                                  *)
C5_FailureContainment ==
    /\ pc # "crashed"
    /\ (pc \in Finished /\ exc # NoExc) => ret = "False"
    /\ (pc \in Finished /\ \E i \in 2..Len(calls) : ~calls[i].ok) => ret = "False"
    /\ pc = "exited" => /\ ret \in {"True", "False"}
                        /\ exit_code = <<IF ret = "False" THEN 1 ELSE 0>>

C5_Witness == pc = "exited" /\ exc = "KeyError" /\ ret = "False" /\ exit_code = <<1>>

(* C6: when the analyzer's text, fences and whitespace stripped, is not    *)
(* JSON, no comment is posted and run_review returns False.                *)
C6_MalformedPayload ==
    (response_text # NoText /\ ~IsJson(response_text))
    => /\ posted = <<>>
       /\ Ops("post") = {}
       /\ pc \in Finished => ret = "False"

C6_Witness == pc = "exited" /\ response_text = <<Word>> /\ ret = "False" /\ posted = <<>>

(* A payload the parser of the specification accepts: an object that has a *)
(* summary and a sequence of issues.                                       *)
StructurallyValid(rv) == rv.kind = "object" /\ rv.has_summary /\ rv.issues.kind = "list"

(* C7: when the analyzer's text is JSON but not an object with a summary   *)
(* and a sequence of issues, run_review returns False and nothing is       *)
(* posted.                                                                 *)
C7_InvalidPayloadFatal ==
    (pc \in Finished /\ IsJson(response_text) /\ ~StructurallyValid(review))
    => (ret = "False" /\ posted = <<>>)

(* C7, the two cases the claim spells out: a missing key, or a top-level   *)
(* value that is not an object.                                            *)
C7_MissingKeyOrNotObject ==
    (/\ IsJson(response_text)
     /\ \/ review.kind # "object"
        \/ ~review.has_summary
        \/ review.issues.kind = "absent")
    => /\ posted = <<>>
       /\ pc \in Finished => ret = "False"

(* C8: the authentication check comes before the diff fetch, and when it   *)
(* fails it is the last external call of the run: no fetch, no analyzer    *)
(* call, no post, and run_review returns False.                            *)
C8_AuthGate ==
    /\ \A i \in Ops("diff") : \E j \in 1..(i - 1) : calls[j] = Call("test_auth", TRUE)
    /\ FailedCalls("test_auth") # {}
       => /\ FailedCalls("test_auth") = {Len(calls)}
          /\ Ops("diff") \cup Ops("diffstat") \cup Ops("pr_info") = {}
          /\ Ops("analyzer") \cup Ops("post") = {}
          /\ posted = <<>>
          /\ pc \in Finished => ret = "False"

C8_Witness ==
    /\ pc = "exited"
    /\ Len(calls) = 2
    /\ calls[2] = Call("test_auth", FALSE)
    /\ ret = "False"

ExpectedPosts(rv, inc) ==
    <<SummaryComment(rv, inc)>>
    \o [i \in 1..Len(issues_to_include(rv, inc)) |-> IssueComment(issues_to_include(rv, inc)[i])]

(* C9: in a run whose payload parsed and whose posts all succeeded, the    *)
(* posted comments are the summary followed by one comment per filtered    *)
(* issue, in order; no issue comment precedes the summary.                 *)
C9_PublishSequence ==
    /\ (/\ pc \in Finished
        /\ IsJson(response_text)
        /\ StructurallyValid(review)
        /\ FailedCalls("post") = {})
       => posted = ExpectedPosts(review, include_low_severity)
    /\ posted # <<>> => posted[1].type = "summary"

(* C9 for payloads that carry every key the formatter reads *)
C9_PublishSequenceAllKeys ==
    (/\ pc \in Finished
     /\ IsJson(response_text)
     /\ StructurallyValid(review)
     /\ review.has_recommendations
     /\ \A i \in 1..Len(review.issues.items) : review.issues.items[i].category # Absent
     /\ FailedCalls("post") = {})
    => /\ posted = ExpectedPosts(review, include_low_severity)
       /\ Len(posted) = 1 + Len(issues_to_include(review, include_low_severity))

(* C10: a failed post is the last external call of its run, the comments   *)
(* posted before it stay on the host, and run_review returns False.        *)
C10_AbortOnPublishFailure ==
    /\ Len(comments) >= Len(posted)
    /\ SubSeq(comments, Len(comments) - Len(posted) + 1, Len(comments)) = posted
    /\ Len(posted) = Cardinality(Ops("post") \ FailedCalls("post"))
    /\ FailedCalls("post") # {}
       => /\ FailedCalls("post") = {Len(calls)}
          /\ pc \in Finished => ret = "False"

C10_Witness ==
    /\ pc = "exited"
    /\ Len(posted) = 2
    /\ FailedCalls("post") = {Len(calls)}
    /\ High = 0 /\ Medium = 0
    /\ ret = "False"

(* The issue the k-th issue comment of the current run was built from *)
SourceIssue(k) == issues_to_include(review, include_low_severity)[k]
IssuePosts == 1..(Len(posted) - 1)

(* C11: every posted issue comment carries an inline anchor exactly when   *)
(* its issue has both a file and a line, whatever their values, and the    *)
(* anchor is then the issue's own file and line.                           *)
C11_InlineAnchor ==
    \A k \in IssuePosts :
        LET c == posted[k + 1]
            issue == SourceIssue(k)
        IN  /\ c.inline.has_to <=> (issue.file # Absent /\ issue.has_line)
            /\ c.inline.has_to => (c.inline.path = issue.file /\ c.inline.to = issue.line)

(* C11 for the values Python takes as true: a non-empty path, a non-zero line *)
C11_InlineAnchorTruthy ==
    \A k \in IssuePosts :
        LET c == posted[k + 1]
            issue == SourceIssue(k)
        IN  /\ c.inline.has_to <=> (/\ issue.file \notin {Absent, ""}
                                    /\ issue.has_line /\ issue.line # 0)
            /\ c.inline.has_to => (c.inline.path = issue.file /\ c.inline.to = issue.line)

Failed == {i \in 1..Len(calls) : ~calls[i].ok}
ReadOps == {"list_comments", "test_auth", "diff", "diffstat", "pr_info", "analyzer"}
NotRetried == \A op \in ReadOps : Cardinality(Ops(op)) <= 1

(* C12: a failed external operation, the listing of comments included, is  *)
(* the last external call of its run, the run returns False, and no        *)
(* operation is made twice.                                                *)
C12_EveryFailureTerminal ==
    /\ Failed \subseteq {Len(calls)}
    /\ (Failed # {} /\ pc \in Finished) => ret = "False"
    /\ NotRetried

(* C12 for every operation but the listing of existing comments *)
C12_FailureAfterListingTerminal ==
    /\ (Failed \ {1}) \subseteq {Len(calls)}
    /\ ((Failed \ {1}) # {} /\ pc \in Finished) => ret = "False"
    /\ NotRetried

AllCategories(rv) == \A i \in 1..Len(rv.issues.items) : rv.issues.items[i].category # Absent
CompletedAsVerdict ==
    /\ exc = NoExc
    /\ posted = ExpectedPosts(review, include_low_severity)
    /\ ret = Bool(High = 0 /\ Medium <= 3)

(* C13: a payload with summary and issues that omits recommendations or    *)
(* positive_notes is handled as if the omitted key held an empty list: all *)
(* comments are published and the verdict follows the severity tallies.    *)
C13_OptionalTopLevelDefault ==
    (/\ pc \in Finished
     /\ IsJson(response_text)
     /\ StructurallyValid(review)
     /\ AllCategories(review)
     /\ ~review.has_recommendations \/ ~review.has_positive_notes
     /\ AllOk(calls))
    => CompletedAsVerdict

(* C13 for positive_notes alone, which the code reads with a default *)
C13_PositiveNotesDefault ==
    (/\ pc \in Finished
     /\ IsJson(response_text)
     /\ StructurallyValid(review)
     /\ AllCategories(review)
     /\ review.has_recommendations /\ ~review.has_positive_notes
     /\ AllOk(calls))
    => CompletedAsVerdict

(* C14: a payload in which an issue lacks category or good_practice still  *)
(* has every comment posted and the verdict follows the severity tallies.  *)
C14_OptionalIssueFieldDefault ==
    (/\ pc \in Finished
     /\ IsJson(response_text)
     /\ StructurallyValid(review)
     /\ review.has_recommendations
     /\ \E i \in 1..Len(review.issues.items) :
            \/ review.issues.items[i].category = Absent
            \/ review.issues.items[i].good_practice = Absent
     /\ AllOk(calls))
    => CompletedAsVerdict

(* C14 for good_practice alone, which the code reads with a default *)
C14_GoodPracticeDefault ==
    (/\ pc \in Finished
     /\ IsJson(response_text)
     /\ StructurallyValid(review)
     /\ review.has_recommendations
     /\ AllCategories(review)
     /\ \E i \in 1..Len(review.issues.items) : review.issues.items[i].good_practice = Absent
     /\ AllOk(calls))
    => CompletedAsVerdict

----------------------------------------------------------------------------
(* Runs whose analyzer answers are payload texts with and without fences *)

(* Unwrapped texts: a JSON value, or text that is not JSON *)
ParseBodies ==
    { <<Value(p)>> : p \in SmallPayloads }
    \cup { <<Word>>, <<Value(Complete(<<>>)), Ws, Word>> }

Wrappers == {"json", "json tight", "plain", "plain tight", "other tag", "json spaced"}

(* The text body inside a code fence: the opening fence carries the tag    *)
(* json, another tag or none; "tight" has no line break inside the fence,  *)
(* "spaced" has whitespace around the whole block.                         *)
Wrap(w, body) ==
    CASE w = "json"        -> <<Fence, TagJson, Ws>> \o body \o <<Ws, Fence>>
      [] w = "json tight"  -> <<Fence, TagJson>> \o body \o <<Fence>>
      [] w = "plain"       -> <<Fence, Ws>> \o body \o <<Ws, Fence>>
      [] w = "plain tight" -> <<Fence>> \o body \o <<Fence>>
      [] w = "other tag"   -> <<Fence, Word, Ws>> \o body \o <<Ws, Fence>>
      [] w = "json spaced" -> <<Ws, Fence, TagJson, Ws>> \o body \o <<Ws, Fence, Ws>>

ParseTexts == ParseBodies \cup { Wrap(w, body) : w \in Wrappers, body \in ParseBodies }

NextParse ==
    \/ CheckExistingReviews
    \/ TestAuth
    \/ FetchDiff
    \/ FetchFiles
    \/ FetchPrInfo
    \/ AnalyzeWithClaude(ParseTexts)
    \/ PostSummary
    \/ PostIssue
    \/ Verdict
    \/ Except
    \/ Exit

SpecParse == Init /\ [][NextParse]_vars

(* The result of the run's parse equals the result of parsing body *)
SameParse(body) ==
    /\ IsJson(response_text) <=> IsJson(StripFences(body))
    /\ IsJson(response_text) => review = json_loads(StripFences(body))
    /\ ~IsJson(response_text) => exc = "JSONDecodeError"

(* C15: parsing a payload text wrapped in a code fence, whose opening      *)
(* fence has the tag json, another tag or none, gives the review or the    *)
(* parse failure that parsing the unwrapped text gives.                    *)
C15_FenceStripping ==
    \A w \in Wrappers, body \in ParseBodies :
        (raw_text = Wrap(w, body) /\ pc # "analyze") => SameParse(body)

(* C15 for fences with the tag json or without a tag *)
C15_JsonOrPlainFence ==
    \A w \in Wrappers \ {"other tag"}, body \in ParseBodies :
        (raw_text = Wrap(w, body) /\ pc # "analyze") => SameParse(body)

CallOrder == <<"list_comments", "test_auth", "diff", "diffstat", "pr_info", "analyzer">>

(* C16: the external calls of a run are a prefix of: list comments,        *)
(* authentication check, diff, changed files, pull request details,        *)
(* analyzer, summary post, issue posts.  The analyzer is called only after *)
(* the three fetches succeeded, a comment is posted only after the         *)
(* analyzer answered and its text parsed, and no host read follows the     *)
(* analyzer call.                                                          *)
C16_CallOrder ==
    /\ \A i \in 1..Len(calls) :
          calls[i].op = (IF i <= Len(CallOrder) THEN CallOrder[i] ELSE "post")
    /\ Ops("analyzer") # {} => \A j \in 2..5 : calls[j].ok
    /\ Ops("post") # {} => (calls[6].ok /\ IsJson(response_text))
    /\ \A i \in Ops("analyzer"), j \in 1..Len(calls) :
          j > i => calls[j].op = "post"
    /\ \A k \in 1..Len(posted) :
          posted[k].type = (IF k = 1 THEN "summary" ELSE "issue")

C16_Witness ==
    /\ pc = "exited"
    /\ Len(calls) = 8
    /\ AllOk(calls)
    /\ Len(posted) = 2

SummariesBeforeRun ==
    {i \in 1..Len(CommentsBeforeRun) : CommentsBeforeRun[i].type = "summary"}

(* C17: once an earlier run has posted its summary comment, whatever it    *)
(* returned and whichever issue comments it left unposted, a later run     *)
(* whose listing succeeds returns True with the listing as its only call:  *)
(* it posts nothing and computes no verdict.                               *)
C17_RerunMasksFailure ==
    (SummariesBeforeRun # {} /\ calls # <<>> /\ calls[1].ok)
    => /\ pc \in Finished
       /\ ret = "True"
       /\ calls = <<Call("list_comments", TRUE)>>
       /\ posted = <<>>
       /\ review = NoReview

(* the earlier run posted a summary counting one high-severity issue and   *)
(* no issue comment after it, so it returned False                         *)
C17_Witness ==
    /\ runs = 2
    /\ pc = "exited"
    /\ ret = "True"
    /\ posted = <<>>
    /\ comments # <<>>
    /\ comments[Len(comments)].type = "summary"
    /\ comments[Len(comments)].high = 1

PostedSummaries == {k \in 1..Len(posted) : posted[k].type = "summary"}

(* C18: the high and medium counts written into the summary comment equal  *)
(* the high and medium tallies of the unfiltered issues, for either value  *)
(* of include_low_severity.                                                *)
C18_SummaryCountsAgree ==
    \A k \in PostedSummaries : posted[k].high = High /\ posted[k].medium = Medium

C18_Witness ==
    /\ ~include_low_severity
    /\ PostedSummaries # {}
    /\ Low > 0 /\ Medium > 0 /\ High > 0
    /\ posted[1].high = High /\ posted[1].medium = Medium

(* C19: with include_low_severity off the low count written into the       *)
(* summary is 0 whatever the review holds, and no posted summary carries   *)
(* the note that low-severity issues are hidden.                           *)
C19_HiddenNoteUnreachable ==
    \A k \in PostedSummaries :
        /\ ~include_low_severity => posted[k].low = 0
        /\ ~posted[k].hidden_note

C19_Witness ==
    /\ ~include_low_severity
    /\ PostedSummaries # {}
    /\ Low > 0
    /\ posted[1].low = 0
    /\ ~posted[1].hidden_note

====
